---- MODULE Spec2Model ----
(***************************************************************************)
(* Validation of the three record types of the repository:                 *)
(*   ex0/space_station.py  SpaceStation                                    *)
(*   ex1/alien_contact.py  AlienContact  + validate_business_rules         *)
(*   ex2/space_crew.py     CrewMember, SpaceMission + validate_mission_rules*)
(*                                                                         *)
(* Values are tagged records: [int |-> 6], [float |-> 855] (tenths, so     *)
(* 855 is 85.5), [str |-> "x"], [bool |-> TRUE], [none |-> TRUE],          *)
(* [enum |-> "radio"], [dt |-> [year |-> ..]], [list |-> <<..>>],          *)
(* [dict |-> [..]].  A keyword that is not passed is Absent.               *)
(***************************************************************************)
EXTENDS Integers, Sequences, FiniteSets, TLC

VARIABLES model, raw, pc, record, errors, evaluated, round, first

vars == <<model, raw, pc, record, errors, evaluated, round, first>>

\* Longest crew list enumerated element by element.
MaxCrew == 3

Absent == [absent |-> TRUE]
None == [none |-> TRUE]

IsAbsent(v) == "absent" \in DOMAIN v

----------------------------------------------------------------------------
\* Text helpers

Char(s, i) == SubSeq(s, i, i)

Digits == {"0", "1", "2", "3", "4", "5", "6", "7", "8", "9"}

DigitVal(c) ==
  CASE c = "0" -> 0 [] c = "1" -> 1 [] c = "2" -> 2 [] c = "3" -> 3
    [] c = "4" -> 4 [] c = "5" -> 5 [] c = "6" -> 6 [] c = "7" -> 7
    [] c = "8" -> 8 [] c = "9" -> 9

DigitChar(d) ==
  CASE d = 0 -> "0" [] d = 1 -> "1" [] d = 2 -> "2" [] d = 3 -> "3"
    [] d = 4 -> "4" [] d = 5 -> "5" [] d = 6 -> "6" [] d = 7 -> "7"
    [] d = 8 -> "8" [] d = 9 -> "9"

AllDigits(s) == Len(s) > 0 /\ \A i \in 1..Len(s) : Char(s, i) \in Digits

RECURSIVE DigitsVal(_)
DigitsVal(s) ==
  IF Len(s) = 0 THEN 0
  ELSE 10 * DigitsVal(SubSeq(s, 1, Len(s) - 1)) + DigitVal(Char(s, Len(s)))

RECURSIVE Pad(_, _)
\* n >= 0 written in exactly w decimal digits
Pad(n, w) == IF w = 0 THEN "" ELSE Pad(n \div 10, w - 1) \o DigitChar(n % 10)

RECURSIVE Rep(_, _)
Rep(s, n) ==
  IF n = 0 THEN ""
  ELSE IF n % 2 = 0 THEN LET h == Rep(s, n \div 2) IN h \o h
  ELSE s \o Rep(s, n - 1)

\* str.startswith
startswith(s, p) == Len(s) >= Len(p) /\ SubSeq(s, 1, Len(p)) = p

----------------------------------------------------------------------------
\* Coercion of a raw value to a declared type (lax mode)

\* decimal digits, negated when the text began with "-"
ParseDigits(body, neg) ==
  IF AllDigits(body)
    THEN [ok |-> TRUE, v |-> IF neg THEN 0 - DigitsVal(body) ELSE DigitsVal(body)]
    ELSE [ok |-> FALSE, v |-> 0]

\* str -> int : optional sign followed by decimal digits
ParseInt(s) ==
  IF Len(s) > 0 /\ Char(s, 1) \in {"-", "+"}
    THEN ParseDigits(SubSeq(s, 2, Len(s)), Char(s, 1) = "-")
    ELSE ParseDigits(s, FALSE)

IsLeap(y) == (y % 4 = 0 /\ y % 100 # 0) \/ y % 400 = 0

DaysIn(y, m) ==
  IF m = 2 THEN (IF IsLeap(y) THEN 29 ELSE 28)
  ELSE IF m \in {4, 6, 9, 11} THEN 30 ELSE 31

\* "YYYY-MM-DDTHH:MM:SS", the separator being T, t or a space
DatetimeShape(s) ==
  /\ Len(s) = 19
  /\ Char(s, 5) = "-" /\ Char(s, 8) = "-"
  /\ Char(s, 11) \in {"T", "t", " "}
  /\ Char(s, 14) = ":" /\ Char(s, 17) = ":"
  /\ AllDigits(SubSeq(s, 1, 4)) /\ AllDigits(SubSeq(s, 6, 7))
  /\ AllDigits(SubSeq(s, 9, 10)) /\ AllDigits(SubSeq(s, 12, 13))
  /\ AllDigits(SubSeq(s, 15, 16)) /\ AllDigits(SubSeq(s, 18, 19))

DatetimeFields(s) ==
  [year   |-> DigitsVal(SubSeq(s, 1, 4)),
   month  |-> DigitsVal(SubSeq(s, 6, 7)),
   day    |-> DigitsVal(SubSeq(s, 9, 10)),
   hour   |-> DigitsVal(SubSeq(s, 12, 13)),
   minute |-> DigitsVal(SubSeq(s, 15, 16)),
   second |-> DigitsVal(SubSeq(s, 18, 19))]

DatetimeInRange(d) ==
  /\ d.year >= 1 /\ d.month \in 1..12
  /\ d.day >= 1 /\ d.day <= DaysIn(d.year, d.month)
  /\ d.hour <= 23 /\ d.minute <= 59 /\ d.second <= 59

NoDatetime ==
  [year |-> 0, month |-> 0, day |-> 0, hour |-> 0, minute |-> 0, second |-> 0]

Parsed(shape, d) ==
  IF shape /\ DatetimeInRange(d) THEN [ok |-> TRUE, v |-> d]
  ELSE [ok |-> FALSE, v |-> NoDatetime]

\* str -> datetime
ParseDatetime(s) == Parsed(DatetimeShape(s), DatetimeFields(s))

\* datetime.isoformat()
isoformat(d) ==
  Pad(d.year, 4) \o "-" \o Pad(d.month, 2) \o "-" \o Pad(d.day, 2) \o "T"
    \o Pad(d.hour, 2) \o ":" \o Pad(d.minute, 2) \o ":" \o Pad(d.second, 2)

BoolTrueStr == {"1", "on", "t", "true", "y", "yes"}
BoolFalseStr == {"0", "off", "f", "false", "n", "no"}

Fail(v) == [ok |-> FALSE, val |-> v]
Good(v) == [ok |-> TRUE, val |-> v]

CoerceStr(v) == IF "str" \in DOMAIN v THEN Good(v) ELSE Fail(v)

FromParsedInt(p, v) == IF p.ok THEN Good([int |-> p.v]) ELSE Fail(v)

CoerceInt(v) ==
  IF "int" \in DOMAIN v THEN Good(v)
  ELSE IF "float" \in DOMAIN v
    THEN (IF v.float % 10 = 0 THEN Good([int |-> v.float \div 10]) ELSE Fail(v))
  ELSE IF "str" \in DOMAIN v THEN FromParsedInt(ParseInt(v.str), v)
  ELSE Fail(v)

FromParsedFloat(p, v) == IF p.ok THEN Good([float |-> p.v * 10]) ELSE Fail(v)

\* of text, only whole numbers are read here; the inputs hold no decimal text
CoerceFloat(v) ==
  IF "float" \in DOMAIN v THEN Good(v)
  ELSE IF "int" \in DOMAIN v THEN Good([float |-> v.int * 10])
  ELSE IF "str" \in DOMAIN v THEN FromParsedFloat(ParseInt(v.str), v)
  ELSE Fail(v)

CoerceBool(v) ==
  IF "bool" \in DOMAIN v THEN Good(v)
  ELSE IF "int" \in DOMAIN v
    THEN (IF v.int \in {0, 1} THEN Good([bool |-> v.int = 1]) ELSE Fail(v))
  ELSE IF "str" \in DOMAIN v
    THEN (IF v.str \in BoolTrueStr THEN Good([bool |-> TRUE])
          ELSE IF v.str \in BoolFalseStr THEN Good([bool |-> FALSE])
          ELSE Fail(v))
  ELSE Fail(v)

FromParsedDatetime(p, v) == IF p.ok THEN Good([dt |-> p.v]) ELSE Fail(v)

\* the parsed datetime moved one hour on
Shifted(p) == [p EXCEPT !.v = [p.v EXCEPT !.hour = (@ + 1) % 24]]

\* variant: text is read as local time and moved one hour on
CoerceDatetime_shift(v) ==
  IF "dt" \in DOMAIN v THEN Good(v)
  ELSE IF "str" \in DOMAIN v THEN FromParsedDatetime(Shifted(ParseDatetime(v.str)), v)
  ELSE Fail(v)

CoerceDatetime(v) ==
  IF "dt" \in DOMAIN v THEN Good(v)
  ELSE IF "str" \in DOMAIN v THEN FromParsedDatetime(ParseDatetime(v.str), v)
  ELSE Fail(v)

CoerceEnum(members, v) ==
  IF "enum" \in DOMAIN v THEN (IF v.enum \in members THEN Good(v) ELSE Fail(v))
  ELSE IF "str" \in DOMAIN v
    THEN (IF v.str \in members THEN Good([enum |-> v.str]) ELSE Fail(v))
  ELSE Fail(v)

----------------------------------------------------------------------------
\* Declared types

ContactType == {"radio", "visual", "physical", "telepathic"}

Rank == {"cadet", "officer", "lieutenant", "captain", "commander"}

NoMembers == {}

\* One declared field.  min/max are the Field(...) bounds (lengths for str,
\* values for int, tenths for float); ranged says whether both are declared,
\* capped whether only the upper one is.
F(name, type, ranged, capped, min, max, hasDefault, default, members) ==
  [name |-> name, type |-> type, ranged |-> ranged, capped |-> capped,
   min |-> min, max |-> max, hasDefault |-> hasDefault, default |-> default,
   members |-> members]

SpaceStation_fields ==
  << F("station_id",       "str",      TRUE,  FALSE, 3, 10,   FALSE, Absent, NoMembers),
     F("name",             "str",      TRUE,  FALSE, 1, 50,   FALSE, Absent, NoMembers),
     F("crew_size",        "int",      TRUE,  FALSE, 1, 20,   FALSE, Absent, NoMembers),
     F("power_level",      "float",    TRUE,  FALSE, 0, 1000, FALSE, Absent, NoMembers),
     F("oxygen_level",     "float",    TRUE,  FALSE, 0, 1000, FALSE, Absent, NoMembers),
     F("last_maintenance", "datetime", FALSE, FALSE, 0, 0,    FALSE, Absent, NoMembers),
     F("is_operational",   "bool",     FALSE, FALSE, 0, 0,    TRUE,  [bool |-> TRUE], NoMembers),
     F("notes",            "optstr",   FALSE, TRUE,  0, 200,  TRUE,  None, NoMembers) >>

\* variant: is_verified defaults to True
is_verified_default_true == [bool |-> TRUE]

\* is_verified: bool = False
is_verified_default == [bool |-> FALSE]

AlienContact_fields ==
  << F("contact_id",       "str",      TRUE,  FALSE, 5, 15,   FALSE, Absent, NoMembers),
     F("timestamp",        "datetime", FALSE, FALSE, 0, 0,    FALSE, Absent, NoMembers),
     F("location",         "str",      TRUE,  FALSE, 3, 100,  FALSE, Absent, NoMembers),
     F("contact_type",     "enum",     FALSE, FALSE, 0, 0,    FALSE, Absent, ContactType),
     F("signal_strength",  "float",    TRUE,  FALSE, 0, 100,  FALSE, Absent, NoMembers),
     F("duration_minutes", "int",      TRUE,  FALSE, 1, 1440, FALSE, Absent, NoMembers),
     F("witness_count",    "int",      TRUE,  FALSE, 1, 100,  FALSE, Absent, NoMembers),
     F("message_received", "optstr",   FALSE, TRUE,  0, 500,  TRUE,  None, NoMembers),
     F("is_verified",      "bool",     FALSE, FALSE, 0, 0,    TRUE,  is_verified_default, NoMembers) >>

CrewMember_fields ==
  << F("member_id",        "str",      TRUE,  FALSE, 3, 10,   FALSE, Absent, NoMembers),
     F("name",             "str",      TRUE,  FALSE, 2, 50,   FALSE, Absent, NoMembers),
     F("rank",             "enum",     FALSE, FALSE, 0, 0,    FALSE, Absent, Rank),
     F("age",              "int",      TRUE,  FALSE, 18, 80,  FALSE, Absent, NoMembers),
     F("specialization",   "str",      TRUE,  FALSE, 3, 30,   FALSE, Absent, NoMembers),
     F("years_experience", "int",      TRUE,  FALSE, 0, 50,   FALSE, Absent, NoMembers),
     F("is_active",        "bool",     FALSE, FALSE, 0, 0,    TRUE,  [bool |-> TRUE], NoMembers) >>

SpaceMission_fields ==
  << F("mission_id",       "str",      TRUE,  FALSE, 5, 15,   FALSE, Absent, NoMembers),
     F("mission_name",     "str",      TRUE,  FALSE, 3, 100,  FALSE, Absent, NoMembers),
     F("destination",      "str",      TRUE,  FALSE, 3, 50,   FALSE, Absent, NoMembers),
     F("launch_date",      "datetime", FALSE, FALSE, 0, 0,    FALSE, Absent, NoMembers),
     F("duration_days",    "int",      TRUE,  FALSE, 1, 3650, FALSE, Absent, NoMembers),
     F("crew",             "crew",     TRUE,  FALSE, 1, 12,   FALSE, Absent, NoMembers),
     F("mission_status",   "str",      FALSE, FALSE, 0, 0,    TRUE,  [str |-> "planned"], NoMembers),
     F("budget_millions",  "float",    TRUE,  FALSE, 10, 100000, FALSE, Absent, NoMembers) >>

----------------------------------------------------------------------------
\* Field phase

Violation(kind, field, idx, sub, msg) ==
  [kind |-> kind, field |-> field, idx |-> idx, sub |-> sub, msg |-> msg]

FieldViolation(kind, field) == Violation(kind, field, -1, "", "")

Coerce(spec, v) ==
  CASE spec.type = "str"      -> CoerceStr(v)
    [] spec.type = "optstr"   -> IF "none" \in DOMAIN v THEN Good(v) ELSE CoerceStr(v)
    [] spec.type = "int"      -> CoerceInt(v)
    [] spec.type = "float"    -> CoerceFloat(v)
    [] spec.type = "bool"     -> CoerceBool(v)
    [] spec.type = "datetime" -> CoerceDatetime(v)
    [] spec.type = "enum"     -> CoerceEnum(spec.members, v)

\* the magnitude a Field(...) bound applies to
Measure(v) ==
  IF "str" \in DOMAIN v THEN Len(v.str)
  ELSE IF "int" \in DOMAIN v THEN v.int
  ELSE IF "float" \in DOMAIN v THEN v.float
  ELSE 0

Bounded(v) == \E t \in {"str", "int", "float"} : t \in DOMAIN v

Satisfies(spec, v) ==
  \/ ~Bounded(v)
  \/ /\ spec.ranged => (Measure(v) >= spec.min /\ Measure(v) <= spec.max)
     /\ spec.capped => Measure(v) <= spec.max

Missing(spec) == [errs |-> <<FieldViolation("MissingField", spec.name)>>, val |-> Absent]

Mismatch(spec) == [errs |-> <<FieldViolation("TypeMismatch", spec.name)>>, val |-> Absent]

OutOfBounds(spec) ==
  [errs |-> <<FieldViolation("ConstraintViolation", spec.name)>>, val |-> Absent]

Accepted(val) == [errs |-> <<>>, val |-> val]

\* variant: a value of the wrong type is replaced by the default, if any
Checked_lenient(spec, c) ==
  IF ~c.ok THEN (IF spec.hasDefault THEN Accepted(spec.default) ELSE Mismatch(spec))
  ELSE IF ~Satisfies(spec, c.val) THEN OutOfBounds(spec)
  ELSE Accepted(c.val)

\* a coerced value against the bounds of its field
Checked(spec, c) ==
  IF ~c.ok THEN Mismatch(spec)
  ELSE IF ~Satisfies(spec, c.val) THEN OutOfBounds(spec)
  ELSE Accepted(c.val)

\* variant: an absent required keyword is read as None and then type-checked
CheckField_absent_as_none(spec, v) ==
  IF IsAbsent(v) /\ spec.hasDefault THEN Accepted(spec.default)
  ELSE Checked(spec, Coerce(spec, IF IsAbsent(v) THEN None ELSE v))

\* One scalar field: default for an absent keyword, else coerce, then bounds.
CheckField(spec, v) ==
  IF IsAbsent(v)
    THEN (IF spec.hasDefault THEN Accepted(spec.default) ELSE Missing(spec))
    ELSE Checked(spec, Coerce(spec, v))

RECURSIVE Relocate(_, _, _)
\* the violations of crew[idx], reported under the crew field
Relocate(errs, field, idx) ==
  IF Len(errs) = 0 THEN <<>>
  ELSE <<Violation(Head(errs).kind, field, idx, Head(errs).field, "")>>
         \o Relocate(Tail(errs), field, idx)

\* the pass stopped after field i, the fields after it left unchecked
StopAt(c, fields, i) ==
  <<c>> \o [k \in 1..(Len(fields) - i) |-> Accepted(Absent)]

RECURSIVE CheckFields_first(_, _, _)
\* variant: the pass over the fields stops at the first field that fails
CheckFields_first(fields, kw, i) ==
  IF i > Len(fields) THEN <<>>
  ELSE IF CheckField(fields[i], kw[fields[i].name]).errs # <<>>
    THEN StopAt(CheckField(fields[i], kw[fields[i].name]), fields, i)
    ELSE <<CheckField(fields[i], kw[fields[i].name])>>
           \o CheckFields_first(fields, kw, i + 1)

RECURSIVE CheckFields(_, _, _)
\* fields[i..] in declaration order, one result per field
CheckFields(fields, kw, i) ==
  IF i > Len(fields) THEN <<>>
  ELSE <<CheckField(fields[i], kw[fields[i].name])>> \o CheckFields(fields, kw, i + 1)

RECURSIVE Errs(_)
Errs(res) == IF Len(res) = 0 THEN <<>> ELSE Head(res).errs \o Errs(Tail(res))

Assemble(fields, res) ==
  [n \in {fields[i].name : i \in 1..Len(fields)} |->
     res[CHOOSE j \in 1..Len(fields) : fields[j].name = n].val]

\* the violations in field order, and the record of the checked values
Collected(fields, res) == [errs |-> Errs(res), rec |-> Assemble(fields, res)]

\* All fields of a flat record, in declaration order, errors accumulated.
ValidateFlat(fields, kw) == Collected(fields, CheckFields(fields, kw, 1))

AsMember(r) == [errs |-> r.errs, val |-> [rec |-> r.rec]]

\* CrewMember(**kw), or a CrewMember instance passed through unchanged
CrewMember(v) ==
  IF "rec" \in DOMAIN v THEN Accepted(v)
  ELSE IF "dict" \in DOMAIN v THEN AsMember(ValidateFlat(CrewMember_fields, v.dict))
  ELSE Mismatch([name |-> "crew"])

Located(m, field, idx) == [errs |-> Relocate(m.errs, field, idx), val |-> m.val]

RECURSIVE CheckMembers(_, _, _)
\* every element of the list is validated, violations located at crew[i]
CheckMembers(list, field, i) ==
  IF i > Len(list) THEN <<>>
  ELSE <<Located(CrewMember(list[i]), field, i - 1)>> \o CheckMembers(list, field, i + 1)

\* the list after its members: their violations, else its length, else the list
CheckedCrew(spec, items) ==
  IF Errs(items) # <<>> THEN [errs |-> Errs(items), val |-> Absent]
  ELSE IF Len(items) < spec.min THEN OutOfBounds(spec)
  ELSE Accepted([list |-> [i \in 1..Len(items) |-> items[i].val]])

\* crew: List[CrewMember] = Field(min_length=1, max_length=12)
CheckCrew(spec, v) ==
  IF IsAbsent(v) THEN Missing(spec)
  ELSE IF "list" \notin DOMAIN v THEN Mismatch(spec)
  ELSE IF Len(v.list) > spec.max THEN OutOfBounds(spec)
  ELSE CheckedCrew(spec, CheckMembers(v.list, spec.name, 1))

SpaceStation_validate(kw) == ValidateFlat(SpaceStation_fields, kw)

AlienContact_validate(kw) == ValidateFlat(AlienContact_fields, kw)

RECURSIVE CheckMissionFields(_, _, _)
CheckMissionFields(fields, kw, i) ==
  IF i > Len(fields) THEN <<>>
  ELSE <<IF fields[i].type = "crew" THEN CheckCrew(fields[i], kw[fields[i].name])
         ELSE CheckField(fields[i], kw[fields[i].name])>>
         \o CheckMissionFields(fields, kw, i + 1)

SpaceMission_validate(kw) ==
  Collected(SpaceMission_fields, CheckMissionFields(SpaceMission_fields, kw, 1))

----------------------------------------------------------------------------
\* Rule phase (the mode="after" validators)

\* variant: "is not None" in place of truthiness
Truthy_not_none(v) == "str" \in DOMAIN v

\* Python truthiness of an Optional[str]
Truthy(v) == "str" \in DOMAIN v /\ Len(v.str) > 0

\* signal_strength > 7.0, in tenths
StrongSignal == 70

LongMission == 365

MinExperience == 5

TelepathicWitnesses == 3

Passed(ev) == [msg |-> "", evaluated |-> ev]
Raised(msg, ev) == [msg |-> msg, evaluated |-> ev]

\* variant: the signal rule is tried before the telepathic rule
validate_business_rules_reordered(self) ==
  IF ~startswith(self.contact_id.str, "AC")
    THEN Raised("Contact ID must start with \"AC\" (Alien Contact)", <<"prefix">>)
  ELSE IF self.contact_type.enum = "physical" /\ ~self.is_verified.bool
    THEN Raised("Physical contact reports must be verified", <<"prefix", "physical">>)
  ELSE IF self.signal_strength.float > StrongSignal /\ ~Truthy(self.message_received)
    THEN Raised("Strong signals (> 7.0) should include received messages",
                <<"prefix", "physical", "signal">>)
  ELSE IF self.contact_type.enum = "telepathic"
          /\ self.witness_count.int < TelepathicWitnesses
    THEN Raised("Telepathic contact requires at least 3 witnesses",
                <<"prefix", "physical", "signal", "telepathic">>)
  ELSE Passed(<<"prefix", "physical", "signal", "telepathic">>)

validate_business_rules(self) ==
  IF ~startswith(self.contact_id.str, "AC")
    THEN Raised("Contact ID must start with \"AC\" (Alien Contact)", <<"prefix">>)
  ELSE IF self.contact_type.enum = "physical" /\ ~self.is_verified.bool
    THEN Raised("Physical contact reports must be verified", <<"prefix", "physical">>)
  ELSE IF self.contact_type.enum = "telepathic"
          /\ self.witness_count.int < TelepathicWitnesses
    THEN Raised("Telepathic contact requires at least 3 witnesses",
                <<"prefix", "physical", "telepathic">>)
  ELSE IF self.signal_strength.float > StrongSignal /\ ~Truthy(self.message_received)
    THEN Raised("Strong signals (> 7.0) should include received messages",
                <<"prefix", "physical", "telepathic", "signal">>)
  ELSE Passed(<<"prefix", "physical", "telepathic", "signal">>)

\* variant: only the first member is looked at
has_leader_first(crew) == crew[1].rec.rank.enum \in {"captain", "commander"}

has_leader(crew) ==
  \E i \in 1..Len(crew) : crew[i].rec.rank.enum \in {"captain", "commander"}

exprienced(crew) ==
  Cardinality({i \in 1..Len(crew) : crew[i].rec.years_experience.int >= MinExperience})

\* variant: floor division, len(self.crew) // 2
TooFewExperienced_floor(crew) == exprienced(crew) < Len(crew) \div 2

\* exprienced < len(self.crew) / 2, the division being exact
TooFewExperienced(crew) == 2 * exprienced(crew) < Len(crew)

all_active(crew) == \A i \in 1..Len(crew) : crew[i].rec.is_active.bool

validate_mission_rules(self) ==
  IF ~startswith(self.mission_id.str, "M")
    THEN Raised("Mission ID must start with \"M\"", <<"prefix">>)
  ELSE IF ~has_leader(self.crew.list)
    THEN Raised("Mission must have at least one Commander or Captain",
                <<"prefix", "leader">>)
  ELSE IF self.duration_days.int > LongMission /\ TooFewExperienced(self.crew.list)
    THEN Raised("Not enough experienced crew", <<"prefix", "leader", "experience">>)
  ELSE IF ~all_active(self.crew.list)
    THEN Raised("All crew members must be active",
                <<"prefix", "leader", "experience", "active">>)
  ELSE Passed(<<"prefix", "leader", "experience", "active">>)

RuleViolation(msg) == Violation("RuleViolation", "record", -1, "", msg)

----------------------------------------------------------------------------
\* A validated record taken back to raw values: datetimes as ISO text, enum
\* members as their values, nested records as dicts.

ToRawScalar(v) ==
  IF "dt" \in DOMAIN v THEN [str |-> isoformat(v.dt)]
  ELSE IF "enum" \in DOMAIN v THEN [str |-> v.enum]
  ELSE v

ToRawFlat(rec) == [n \in DOMAIN rec |-> ToRawScalar(rec[n])]

ToRaw(rec) ==
  [n \in DOMAIN rec |->
     IF "list" \in DOMAIN rec[n]
       THEN [list |-> [i \in 1..Len(rec[n].list) |->
                         [dict |-> ToRawFlat(rec[n].list[i].rec)]]]
       ELSE ToRawScalar(rec[n])]

----------------------------------------------------------------------------
\* Inputs

S(x) == [str |-> x]
I(x) == [int |-> x]
Fl(x) == [float |-> x]
B(x) == [bool |-> x]

StationInputs ==
  [station_id       : {S("ISS001"), S("AB"), S("ISS00000001"), I(7), Absent},
   name             : {S("Bad Station"), S("")},
   crew_size        : {I(6), I(30), S("6"), S("six"), Fl(65), Absent},
   power_level      : {Fl(855), I(50), Fl(1001), Absent},
   oxygen_level     : {Fl(923), Fl(-1), S("high"), S("92")},
   last_maintenance : {S("2026-02-01T10:30:00"), S("2026-02-01 10:30:00"),
                       S("2026-02-30T10:30:00"), Absent},
   is_operational   : {Absent, B(FALSE), S("maybe")},
   notes            : {Absent, S("All systems nominal."), S(Rep("n", 201))}]

ContactInputs ==
  [contact_id       : {S("AC_2024_001"), S("XX_2024_001"), S("AC1"), Absent},
   timestamp        : {S("2026-02-06T12:30:00"), S("yesterday")},
   location         : {S("Area 51, Nevada")},
   contact_type     : {S("radio"), S("physical"), S("telepathic"),
                       [enum |-> "visual"], S("psychic")},
   signal_strength  : {Fl(85), Fl(70), I(8), Fl(105)},
   duration_minutes : {I(45)},
   witness_count    : {I(5), I(3), I(2), I(101), Absent},
   message_received : {Absent, None, S(""), S("Greetings from Zeta Reticuli"),
                       S(Rep("m", 501))},
   is_verified      : {Absent, B(TRUE), B(FALSE)}]

Member(id, name, rank, age, spec, years, active) ==
  [dict |-> [member_id |-> id, name |-> name, rank |-> rank, age |-> age,
             specialization |-> spec, years_experience |-> years,
             is_active |-> active]]

Commander  == Member(S("CM001"), S("Sarah Connor"), S("commander"), I(38),
                     S("Mission Command"), I(12), B(TRUE))
Lieutenant == Member(S("LT002"), S("John Smith"), [enum |-> "lieutenant"], I(33),
                     S("Navigation"), S("6"), B(TRUE))
Officer    == Member(S("OF003"), S("Alice Johnson"), S("officer"), I(29),
                     S("Engineering"), I(5), Absent)
Cadet      == Member(S("CD001"), S("Test Cadet"), S("cadet"), I(22),
                     S("Support"), I(1), B(TRUE))
Captain    == Member(S("CP004"), S("Jean Picard"), S("captain"), I(59),
                     S("Diplomacy"), I(4), B(FALSE))
Minor      == Member(S("MN005"), S("Wes"), S("cadet"), I(17),
                     Absent, I(0), B(TRUE))

MemberKinds == {Commander, Officer, Cadet, Captain, Minor}

\* a CrewMember built beforehand, as main() does
Instance(m) == CrewMember(m).val

Crews ==
  {[list |-> c] : c \in UNION {[1..n -> MemberKinds] : n \in 0..MaxCrew}}
    \cup {[list |-> <<Instance(Commander), Instance(Lieutenant), Instance(Officer)>>],
          [list |-> [i \in 1..13 |-> Commander]],
          S("nobody"), Absent}

MissionInputs ==
  [mission_id      : {S("M2024_MARS"), S("X2024_MARS"), S("M1")},
   mission_name    : {S("Mars Colony Establishment")},
   destination     : {S("Mars")},
   launch_date     : {S("2026-03-01T09:00:00"), S("launch soon")},
   duration_days   : {I(900), I(366), I(365), I(0)},
   crew            : Crews,
   mission_status  : {Absent, S("active")},
   budget_millions : {Fl(25000)}]

----------------------------------------------------------------------------
\* Behaviour: one constructor call, then (for C8's round trip) a second call
\* on the dumped record.

NoRecord == [absent |-> TRUE]

\* variant: the validator is entered whatever the field phase found
Gate_always(errs) == "rules"

\* mode="after": the validator is entered only when no field failed
Gate(errs) == IF errs = <<>> THEN "rules" ELSE "done"

Init ==
  /\ model \in {"SpaceStation", "AlienContact", "SpaceMission"}
  /\ raw \in CASE model = "SpaceStation" -> StationInputs
               [] model = "AlienContact" -> ContactInputs
               [] model = "SpaceMission" -> MissionInputs
  /\ pc = "start"
  /\ record = NoRecord
  /\ errors = <<>>
  /\ evaluated = <<>>
  /\ round = 1
  /\ first = NoRecord

\* the call ends after the field phase
Return(r) ==
  /\ errors' = r.errs
  /\ record' = IF r.errs = <<>> THEN r.rec ELSE NoRecord
  /\ pc' = "done"

\* the field phase hands the record to the after-validator, or the call ends
Fields(r) ==
  /\ errors' = r.errs
  /\ record' = IF r.errs = <<>> THEN r.rec ELSE NoRecord
  /\ pc' = Gate(r.errs)

\* the after-validator returns self or raises
Rules(r) ==
  /\ errors' = IF r.msg = "" THEN <<>> ELSE <<RuleViolation(r.msg)>>
  /\ record' = IF r.msg = "" THEN record ELSE NoRecord
  /\ evaluated' = r.evaluated
  /\ pc' = "done"

\* SpaceStation(**raw): fields only
SpaceStation ==
  /\ pc = "start" /\ model = "SpaceStation"
  /\ Return(SpaceStation_validate(raw))
  /\ UNCHANGED <<model, raw, evaluated, round, first>>

\* AlienContact(**raw), field phase
AlienContact ==
  /\ pc = "start" /\ model = "AlienContact"
  /\ Fields(AlienContact_validate(raw))
  /\ UNCHANGED <<model, raw, evaluated, round, first>>

\* AlienContact(**raw), the after-validator
AlienContactRules ==
  /\ pc = "rules" /\ model = "AlienContact"
  /\ Rules(validate_business_rules(record))
  /\ UNCHANGED <<model, raw, round, first>>

\* SpaceMission(**raw), field phase
SpaceMission ==
  /\ pc = "start" /\ model = "SpaceMission"
  /\ Fields(SpaceMission_validate(raw))
  /\ UNCHANGED <<model, raw, evaluated, round, first>>

\* SpaceMission(**raw), the after-validator
SpaceMissionRules ==
  /\ pc = "rules" /\ model = "SpaceMission"
  /\ Rules(validate_mission_rules(record))
  /\ UNCHANGED <<model, raw, round, first>>

\* The returned record is dumped and validated again.
Revalidate ==
  /\ pc = "done" /\ round = 1 /\ errors = <<>>
  /\ first' = record
  /\ raw' = ToRaw(record)
  /\ record' = NoRecord
  /\ evaluated' = <<>>
  /\ round' = 2
  /\ pc' = "start"
  /\ UNCHANGED <<model, errors>>

Next ==
  \/ SpaceStation
  \/ AlienContact
  \/ AlienContactRules
  \/ SpaceMission
  \/ SpaceMissionRules
  \/ Revalidate

Spec == Init /\ [][Next]_vars

TypeOK ==
  /\ pc \in {"start", "rules", "done"}
  /\ round \in {1, 2}
  /\ (pc = "done" /\ errors = <<>>) <=> (pc = "done" /\ record # NoRecord)

----------------------------------------------------------------------------
\* Vocabulary of the properties

FieldKinds == {"MissingField", "TypeMismatch", "ConstraintViolation"}

HasFieldViolation(errs) == \E i \in 1..Len(errs) : errs[i].kind \in FieldKinds

HasRuleViolation(errs) == \E i \in 1..Len(errs) : errs[i].kind = "RuleViolation"

FieldsOf(m) ==
  CASE m = "SpaceStation" -> SpaceStation_fields
    [] m = "AlienContact" -> AlienContact_fields
    [] m = "SpaceMission" -> SpaceMission_fields

FieldPhase(m, kw) ==
  CASE m = "SpaceStation" -> SpaceStation_validate(kw)
    [] m = "AlienContact" -> AlienContact_validate(kw)
    [] m = "SpaceMission" -> SpaceMission_validate(kw)

\* a scalar keyword meets its declaration
ScalarOK(spec, v) ==
  IF IsAbsent(v) THEN spec.hasDefault
  ELSE Coerce(spec, v).ok /\ Satisfies(spec, Coerce(spec, v).val)

MemberOK(m) ==
  \/ "rec" \in DOMAIN m
  \/ /\ "dict" \in DOMAIN m
     /\ \A i \in 1..Len(CrewMember_fields) :
          ScalarOK(CrewMember_fields[i], m.dict[CrewMember_fields[i].name])

FieldOK(spec, v) ==
  IF spec.type = "crew"
    THEN /\ "list" \in DOMAIN v
         /\ Len(v.list) >= spec.min /\ Len(v.list) <= spec.max
         /\ \A i \in 1..Len(v.list) : MemberOK(v.list[i])
    ELSE ScalarOK(spec, v)

AllFieldsOK(m, kw) ==
  \A i \in 1..Len(FieldsOf(m)) : FieldOK(FieldsOf(m)[i], kw[FieldsOf(m)[i].name])

\* the value a scalar keyword stands for: its coercion, or the default
Expected(spec, v) == IF IsAbsent(v) THEN spec.default ELSE Coerce(spec, v).val

ExpectedMember(m) ==
  IF "rec" \in DOMAIN m THEN m
  ELSE [rec |-> [n \in DOMAIN m.dict |->
                   Expected(CrewMember_fields[CHOOSE j \in 1..Len(CrewMember_fields) :
                                                CrewMember_fields[j].name = n],
                            m.dict[n])]]

\* each rule taken on its own, in declaration order: TRUE where it would raise
ContactRuleFails(rec) ==
  << ~startswith(rec.contact_id.str, "AC"),
     rec.contact_type.enum = "physical" /\ ~rec.is_verified.bool,
     rec.contact_type.enum = "telepathic" /\ rec.witness_count.int < 3,
     rec.signal_strength.float > 70 /\ ~Truthy(rec.message_received) >>

ContactRuleMsgs ==
  << "Contact ID must start with \"AC\" (Alien Contact)",
     "Physical contact reports must be verified",
     "Telepathic contact requires at least 3 witnesses",
     "Strong signals (> 7.0) should include received messages" >>

ContactRuleNames == <<"prefix", "physical", "telepathic", "signal">>

Leaders == {"captain", "commander"}

Experienced(crew) == {i \in 1..Len(crew) : crew[i].rec.years_experience.int >= 5}

MissionRuleFails(rec) ==
  << ~startswith(rec.mission_id.str, "M"),
     \A i \in 1..Len(rec.crew.list) : rec.crew.list[i].rec.rank.enum \notin Leaders,
     rec.duration_days.int > 365
       /\ 2 * Cardinality(Experienced(rec.crew.list)) < Len(rec.crew.list),
     \E i \in 1..Len(rec.crew.list) : ~rec.crew.list[i].rec.is_active.bool >>

MissionRuleMsgs ==
  << "Mission ID must start with \"M\"",
     "Mission must have at least one Commander or Captain",
     "Not enough experienced crew",
     "All crew members must be active" >>

MissionRuleNames == <<"prefix", "leader", "experience", "active">>

RuleFails(m, rec) ==
  CASE m = "SpaceStation" -> <<>>
    [] m = "AlienContact" -> ContactRuleFails(rec)
    [] m = "SpaceMission" -> MissionRuleFails(rec)

RuleMsgs(m) ==
  CASE m = "SpaceStation" -> <<>>
    [] m = "AlienContact" -> ContactRuleMsgs
    [] m = "SpaceMission" -> MissionRuleMsgs

RuleNames(m) ==
  CASE m = "SpaceStation" -> <<>>
    [] m = "AlienContact" -> ContactRuleNames
    [] m = "SpaceMission" -> MissionRuleNames

Failing(m, rec) == {i \in 1..Len(RuleFails(m, rec)) : RuleFails(m, rec)[i]}

MinOf(set) == CHOOSE x \in set : \A y \in set : x <= y

Done == pc = "done"

Ok == pc = "done" /\ errors = <<>>

\* the record the field phase hands to the rules
Fielded == FieldPhase(model, raw).rec

----------------------------------------------------------------------------
\* Properties

\* C1 (phase gating): the rules are entered only with every field valid and
\* no violation recorded; an input with a field-level violation ends in Err
\* with field violations only, no rule having been evaluated.
C1_PhaseGating ==
  /\ pc = "rules" => (errors = <<>> /\ AllFieldsOK(model, raw))
  /\ evaluated # <<>> => AllFieldsOK(model, raw)
  /\ (Done /\ ~AllFieldsOK(model, raw)) =>
       (evaluated = <<>> /\ HasFieldViolation(errors) /\ ~HasRuleViolation(errors))

\* an AlienContact whose ID lacks the prefix (rule 1 would raise) and whose
\* timestamp does not parse
C1_Witness ==
  /\ Done /\ model = "AlienContact"
  /\ raw.contact_id = S("XX_2024_001") /\ raw.timestamp = S("yesterday")
  /\ HasFieldViolation(errors) /\ evaluated = <<>>

\* C2 (rule short-circuit): a field-valid record on which two or more rules
\* would raise ends in Err with exactly one RuleViolation, that of the first
\* such rule in declaration order, the later rules not being evaluated.
C2_RuleShortCircuit ==
  (Done /\ model # "SpaceStation" /\ AllFieldsOK(model, raw)) =>
    LET f == Failing(model, Fielded)
    IN Cardinality(f) >= 2 =>
         /\ errors = <<RuleViolation(RuleMsgs(model)[MinOf(f)])>>
         /\ evaluated = SubSeq(RuleNames(model), 1, MinOf(f))

\* two rules would raise, the first of them not being the first rule
C2_Witness ==
  /\ Done /\ model # "SpaceStation" /\ AllFieldsOK(model, raw)
  /\ Cardinality(Failing(model, Fielded)) >= 2
  /\ MinOf(Failing(model, Fielded)) > 1
  /\ Len(errors) = 1

ErrLocs(errs) == [i \in 1..Len(errs) |-> <<errs[i].field, errs[i].idx, errs[i].sub>>]

BadScalars(fields, kw) == SelectSeq(fields, LAMBDA f : ~ScalarOK(f, kw[f.name]))

RECURSIVE MemberLocs(_, _)
MemberLocs(list, i) ==
  IF i > Len(list) THEN <<>>
  ELSE (IF "dict" \in DOMAIN list[i]
          THEN LET bad == BadScalars(CrewMember_fields, list[i].dict)
               IN [k \in 1..Len(bad) |-> <<"crew", i - 1, bad[k].name>>]
          ELSE <<>>)
       \o MemberLocs(list, i + 1)

CrewLocs(spec, v) ==
  IF FieldOK(spec, v) THEN <<>>
  ELSE IF "list" \in DOMAIN v /\ Len(v.list) <= spec.max /\ MemberLocs(v.list, 1) # <<>>
    THEN MemberLocs(v.list, 1)
    ELSE << <<spec.name, -1, "">> >>

RECURSIVE OffendingLocs(_, _, _)
\* the offending fields, in declaration order (members of crew in list order)
OffendingLocs(fields, kw, i) ==
  IF i > Len(fields) THEN <<>>
  ELSE (IF fields[i].type = "crew" THEN CrewLocs(fields[i], kw[fields[i].name])
        ELSE IF ScalarOK(fields[i], kw[fields[i].name]) THEN <<>>
        ELSE << <<fields[i].name, -1, "">> >>)
       \o OffendingLocs(fields, kw, i + 1)

\* C3 (field accumulation): when two or more fields offend, Err holds one
\* violation for each offending field, in declaration order.
C3_FieldAccumulation ==
  (Done /\ Len(OffendingLocs(FieldsOf(model), raw, 1)) >= 2) =>
    /\ ErrLocs(errors) = OffendingLocs(FieldsOf(model), raw, 1)
    /\ \A i \in 1..Len(errors) : errors[i].kind \in FieldKinds

\* crew_size above 20 together with power_level above 100.0
C3_Witness ==
  /\ Done /\ model = "SpaceStation"
  /\ raw.crew_size = I(30) /\ raw.power_level = Fl(1001)
  /\ Len(errors) >= 2
  /\ \E i, j \in 1..Len(errors) :
       i < j /\ errors[i].field = "crew_size" /\ errors[j].field = "power_level"
       /\ errors[i].kind = "ConstraintViolation" /\ errors[j].kind = "ConstraintViolation"

ExpectedRecord(m, kw) ==
  [n \in {FieldsOf(m)[i].name : i \in 1..Len(FieldsOf(m))} |->
     LET f == FieldsOf(m)[CHOOSE j \in 1..Len(FieldsOf(m)) : FieldsOf(m)[j].name = n]
     IN IF f.type = "crew"
          THEN [list |-> [i \in 1..Len(kw[n].list) |-> ExpectedMember(kw[n].list[i])]]
          ELSE Expected(f, kw[n])]

\* C4 (Ok exactly on valid input): the call returns a record if and only if
\* every field meets its declaration and no rule would raise; the record
\* then holds, field by field, the coerced keyword or the declared default.
C4_OkExactlyOnValid ==
  Done =>
    /\ (errors = <<>>) <=>
         (AllFieldsOK(model, raw) /\ Failing(model, ExpectedRecord(model, raw)) = {})
    /\ (errors = <<>>) => record = ExpectedRecord(model, raw)
    /\ (errors # <<>>) => record = NoRecord

\* an AlienContact accepted with signal_strength given as the integer 8 and
\* is_verified left out
C4_Witness ==
  /\ Ok /\ model = "AlienContact" /\ round = 1
  /\ raw.signal_strength = I(8) /\ IsAbsent(raw.is_verified)
  /\ record.signal_strength = Fl(80) /\ record.is_verified = B(FALSE)
  /\ record.contact_id = raw.contact_id

NotEnough == RuleViolation("Not enough experienced crew")

NoLeader == RuleViolation("Mission must have at least one Commander or Captain")

\* a field-valid SpaceMission with the "M" prefix
MissionPastPrefix ==
  /\ Done /\ model = "SpaceMission" /\ AllFieldsOK(model, raw)
  /\ startswith(Fielded.mission_id.str, "M")

LeaderAt(i) == Fielded.crew.list[i].rec.rank.enum \in Leaders

\* C5 (experienced-crew rule): past the prefix and leader rules, the mission
\* is rejected with "Not enough experienced crew" if and only if
\* duration_days > 365 and 2 * experienced < len(crew).
C5_ExperiencedCrew ==
  (MissionPastPrefix /\ \E i \in 1..Len(Fielded.crew.list) : LeaderAt(i)) =>
    LET crew == Fielded.crew.list
        n    == Cardinality(Experienced(crew))
    IN (errors = <<NotEnough>>) <=>
         (Fielded.duration_days.int > 365 /\ 2 * n < Len(crew))

\* one experienced member of three on a long mission: rejected
C5_Witness ==
  /\ MissionPastPrefix /\ \E i \in 1..Len(Fielded.crew.list) : LeaderAt(i)
  /\ Len(Fielded.crew.list) = 3
  /\ Cardinality(Experienced(Fielded.crew.list)) = 1
  /\ Fielded.duration_days.int > 365
  /\ errors = <<NotEnough>>

StrongSignalMissing ==
  RuleViolation("Strong signals (> 7.0) should include received messages")

\* a field-valid AlienContact on which the first three rules pass
ContactPastThree ==
  /\ Done /\ model = "AlienContact" /\ AllFieldsOK(model, raw)
  /\ Failing(model, Fielded) \cap {1, 2, 3} = {}

\* C6 as claimed: the strong-signal rule raises exactly when signal_strength
\* is above 7.0 and message_received is not passed as a string.
C6_Original ==
  ContactPastThree =>
    /\ (errors = <<StrongSignalMissing>>) <=>
         (Fielded.signal_strength.float > 70 /\ "str" \notin DOMAIN raw.message_received)
    /\ (errors # <<StrongSignalMissing>>) => errors = <<>>

\* C6 (strong-signal rule), amended: the rule raises exactly when
\* signal_strength is above 7.0 and message_received is omitted, None or the
\* empty string; at 7.0 or below it never raises.
C6_StrongSignal ==
  ContactPastThree =>
    /\ (errors = <<StrongSignalMissing>>) <=>
         /\ Fielded.signal_strength.float > 70
         /\ \/ "str" \notin DOMAIN raw.message_received
            \/ raw.message_received.str = ""
    /\ (errors # <<StrongSignalMissing>>) => errors = <<>>

\* a strong signal with message_received = "" is rejected
C6_Witness ==
  /\ ContactPastThree
  /\ raw.message_received = S("") /\ raw.signal_strength = Fl(85)
  /\ errors = <<StrongSignalMissing>>

\* C7 (missing required field): a required keyword that is not passed gives
\* exactly one violation for that field, a MissingField; every other
\* offending field is still reported; no record is produced.
C7_MissingField ==
  Done =>
    \A i \in 1..Len(FieldsOf(model)) :
      LET f == FieldsOf(model)[i]
      IN (IsAbsent(raw[f.name]) /\ ~f.hasDefault) =>
           /\ record = NoRecord
           /\ \E k \in 1..Len(errors) : errors[k] = FieldViolation("MissingField", f.name)
           /\ Cardinality({k \in 1..Len(errors) : errors[k].field = f.name}) = 1
           /\ \A j \in 1..Len(FieldsOf(model)) :
                ~FieldOK(FieldsOf(model)[j], raw[FieldsOf(model)[j].name]) =>
                  \E k \in 1..Len(errors) :
                    errors[k].field = FieldsOf(model)[j].name /\ errors[k].kind \in FieldKinds

\* crew_size and last_maintenance left out, power_level out of range
C7_Witness ==
  /\ Done /\ model = "SpaceStation"
  /\ IsAbsent(raw.crew_size) /\ IsAbsent(raw.last_maintenance)
  /\ raw.power_level = Fl(1001)
  /\ \E a, b, c \in 1..Len(errors) :
       /\ a < b /\ b < c
       /\ errors[a] = FieldViolation("MissingField", "crew_size")
       /\ errors[b] = FieldViolation("ConstraintViolation", "power_level")
       /\ errors[c] = FieldViolation("MissingField", "last_maintenance")

\* C8 (idempotence): the record returned by a successful call, dumped to raw
\* values and validated again, is accepted and gives an equal record.
C8_Idempotence == (Done /\ round = 2) => (errors = <<>> /\ record = first)

\* a three-member mission validated a second time from its dump
C8_Witness ==
  /\ Done /\ round = 2 /\ model = "SpaceMission"
  /\ raw.mission_status = S("planned")
  /\ Len(raw.crew.list) = 3 /\ "dict" \in DOMAIN raw.crew.list[1]
  /\ record = first

\* C9 (leader rule): past the prefix rule, the mission is rejected with the
\* leader message if and only if no member is a captain or a commander.
C9_LeaderRule ==
  MissionPastPrefix =>
    ((errors = <<NoLeader>>) <=> (\A i \in 1..Len(Fielded.crew.list) : ~LeaderAt(i)))

\* the only leader is the last of three members, and the rule passes
C9_Witness ==
  /\ MissionPastPrefix
  /\ Len(Fielded.crew.list) = 3
  /\ ~LeaderAt(1) /\ ~LeaderAt(2) /\ LeaderAt(3)
  /\ errors # <<NoLeader>>

\* the violations of a whole AlienContact(**kw) call, <<>> when it returns
AlienContact_outcome(kw) ==
  LET f == AlienContact_validate(kw)
  IN IF f.errs # <<>> THEN f.errs
     ELSE IF validate_business_rules(f.rec).msg = "" THEN <<>>
     ELSE <<RuleViolation(validate_business_rules(f.rec).msg)>>

Unverified == RuleViolation("Physical contact reports must be verified")

PhysicalWithPrefix ==
  /\ Done /\ model = "AlienContact" /\ AllFieldsOK(model, raw)
  /\ startswith(Fielded.contact_id.str, "AC")
  /\ Fielded.contact_type.enum = "physical"

\* C10 (default feeds the rules): a physical contact with the "AC" prefix and
\* is_verified left out is rejected as unverified; with is_verified true it
\* is not; for any other contact type is_verified does not change the outcome.
C10_DefaultFeedsRules ==
  /\ (PhysicalWithPrefix /\ IsAbsent(raw.is_verified)) => errors = <<Unverified>>
  /\ (PhysicalWithPrefix /\ raw.is_verified = B(TRUE)) => errors # <<Unverified>>
  /\ (Done /\ model = "AlienContact"
        /\ raw.contact_type \notin {S("physical"), [enum |-> "physical"]}) =>
       \A v \in {Absent, B(TRUE), B(FALSE)} :
         AlienContact_outcome([raw EXCEPT !.is_verified = v]) = errors

\* physical, prefixed, is_verified left out: rejected as unverified
C10_Witness ==
  /\ PhysicalWithPrefix /\ round = 1
  /\ IsAbsent(raw.is_verified)
  /\ errors = <<Unverified>>

====
